---- MODULE Spec2Model ----
(***************************************************************************)
(* Model of ContainmentSystem (src/src/index.ts): an in-memory registry of *)
(* quarantine records keyed by session identifier.                         *)
(*                                                                         *)
(* The JavaScript Map is modelled as the sequence of its entries in        *)
(* insertion order; a QuarantineRecord is a TLA+ record whose optional     *)
(* field releasedAt is present only once it has been assigned.  Time is    *)
(* the wall clock in milliseconds; timestamps are stored in their ISO-8601 *)
(* form (whole seconds, millisecond fraction) and parsed back on use.      *)
(***************************************************************************)
EXTENDS Integers, Sequences, FiniteSets, TLC

(* ---------------------------- bounds ----------------------------------- *)
\* number of distinct reason strings the callers use
NumReasons == 2
\* wall clock (ms since the epoch) at construction
StartTime == 999
\* number of milliseconds the clock may advance during a run
MaxTicks == 2
\* largest small olderThanMs argument tried (besides -1 and the default)
MaxOlderThan == 1

(* ------------------------- program constants --------------------------- *)
\* type ThreatLevel = 1 | 2 | 3 | 4
ThreatLevel == 1..4
\* default argument of clearOldRecords
DefaultOlderThanMs == 86400000

\* the session identifiers the callers use (opaque strings)
Sessions == {"A", "B"}
\* the reason texts the callers pass (opaque strings, numbered)
Reasons == 1..NumReasons
\* the olderThanMs arguments tried: a cutoff in the future (-1), now (0),
\* the recent past, and the default of one day
OlderThanArgs == (-1..MaxOlderThan) \cup {DefaultOlderThanMs}

\* the advisory limits tried: one millisecond, exceeded by the first tick
MaxQuarantineDurations == {1}

\* interface ContainmentConfig: maxQuarantineDuration is optional
ContainmentConfig ==
  [autoContainThreshold : ThreatLevel]
    \cup [autoContainThreshold : ThreatLevel, maxQuarantineDuration : MaxQuarantineDurations]

VARIABLES
  config,               \* this.config
  quarantinedSessions,  \* this.quarantinedSessions, entries in insertion order
  now,                  \* the wall clock read by new Date() / Date.now()
  last,                 \* the most recent call: operation, arguments, what it
                        \* found stored for its session, and its return value
  unreleased            \* the sessions whose latest successful quarantine has
                        \* not been followed by a successful release

vars == <<config, quarantinedSessions, now, last, unreleased>>

(* ----------------------- Date conversions ------------------------------ *)
\* new Date().toISOString(): "YYYY-MM-DDTHH:mm:ss.sssZ", kept as
\* <<whole seconds, milliseconds>>
toISOString(ms) == <<ms \div 1000, ms % 1000>>

\* new Date(str).getTime()
getTime(iso) == iso[1] * 1000 + iso[2]

(* --------------------------- Map operations ---------------------------- *)
\* index of the entry with the given key, 0 when there is none
MapIndex(m, k) ==
  IF \E i \in 1..Len(m) : m[i].key = k
    THEN CHOOSE i \in 1..Len(m) : m[i].key = k /\ \A j \in 1..(i-1) : m[j].key # k
    ELSE 0

MapHas(m, k) == MapIndex(m, k) # 0

\* Map.prototype.get, for a key that is present
MapGet(m, k) == m[MapIndex(m, k)].value

\* variant: a list push, the key is not looked up
MapSet_Push(m, k, v) == Append(m, [key |-> k, value |-> v])

\* Map.prototype.set: replaces the value in place, or appends a new entry
MapSet(m, k, v) ==
  IF MapHas(m, k)
    THEN [m EXCEPT ![MapIndex(m, k)] = [key |-> k, value |-> v]]
    ELSE Append(m, [key |-> k, value |-> v])

\* Map.prototype.delete
MapDelete(m, k) == SelectSeq(m, LAMBDA e : e.key # k)

\* Array.from(map.values())
MapValues(m) == [i \in 1..Len(m) |-> m[i].value]

(* ------------------------------ queries -------------------------------- *)
\* variant: any stored record counts, the released flag is not read
isQuarantinedIn_Stored(m, sessionId) == MapHas(m, sessionId)

isQuarantinedIn(m, sessionId) ==
  MapHas(m, sessionId) /\ ~MapGet(m, sessionId).released

isQuarantined(sessionId) == isQuarantinedIn(quarantinedSessions, sessionId)

\* what a call finds stored for its session
Found(sessionId) ==
  IF ~MapHas(quarantinedSessions, sessionId) THEN "absent"
  ELSE IF MapGet(quarantinedSessions, sessionId).released THEN "released"
  ELSE "active"

getRecord(sessionId) ==
  IF MapHas(quarantinedSessions, sessionId)
    THEN MapGet(quarantinedSessions, sessionId)
    ELSE "null"

\* variant: the filter is inverted
getQuarantinedSessionsOf_Released(m) == SelectSeq(MapValues(m), LAMBDA r : r.released)

getQuarantinedSessionsOf(m) == SelectSeq(MapValues(m), LAMBDA r : ~r.released)

getQuarantinedSessions == getQuarantinedSessionsOf(quarantinedSessions)

getHistoryOf(m) == MapValues(m)

getHistory == getHistoryOf(quarantinedSessions)

\* variant: strictly above the threshold
shouldAutoContain_Strict(threatLevel) == threatLevel > config.autoContainThreshold

shouldAutoContain(threatLevel) == threatLevel >= config.autoContainThreshold

\* end - start for one released record
QuarantineTime(r) == getTime(r.releasedAt) - getTime(r.timestamp)

\* quarantineTimes.reduce((a, b) => a + b, 0)
RECURSIVE SumSeq(_)
SumSeq(q) == IF q = << >> THEN 0 ELSE Head(q) + SumSeq(Tail(q))

\* variant: totalQuarantined reports only the active records
getStatsOf_TotalActive(m) ==
  LET records == MapValues(m)
      currentlyQuarantined == Len(SelectSeq(records, LAMBDA r : ~r.released))
      released == Len(SelectSeq(records, LAMBDA r : r.released))
      withTimes == SelectSeq(records,
                     LAMBDA r : r.released /\ "releasedAt" \in DOMAIN r)
      quarantineTimes == [i \in 1..Len(withTimes) |-> QuarantineTime(withTimes[i])]
      avgTime == IF Len(quarantineTimes) > 0
                   THEN [sum |-> SumSeq(quarantineTimes), count |-> Len(quarantineTimes)]
                   ELSE [sum |-> 0, count |-> 1]
  IN [totalQuarantined |-> currentlyQuarantined,
      currentlyQuarantined |-> currentlyQuarantined,
      released |-> released,
      averageQuarantineTime |-> avgTime]

\* variant: the sum is divided by the number of all records
getStatsOf_DivideByTotal(m) ==
  LET records == MapValues(m)
      currentlyQuarantined == Len(SelectSeq(records, LAMBDA r : ~r.released))
      released == Len(SelectSeq(records, LAMBDA r : r.released))
      withTimes == SelectSeq(records,
                     LAMBDA r : r.released /\ "releasedAt" \in DOMAIN r)
      quarantineTimes == [i \in 1..Len(withTimes) |-> QuarantineTime(withTimes[i])]
      avgTime == IF Len(quarantineTimes) > 0
                   THEN [sum |-> SumSeq(quarantineTimes), count |-> Len(records)]
                   ELSE [sum |-> 0, count |-> 1]
  IN [totalQuarantined |-> Len(records),
      currentlyQuarantined |-> currentlyQuarantined,
      released |-> released,
      averageQuarantineTime |-> avgTime]

\* averageQuarantineTime is kept as the exact quotient sum / count
getStatsOf(m) ==
  LET records == MapValues(m)
      currentlyQuarantined == Len(SelectSeq(records, LAMBDA r : ~r.released))
      released == Len(SelectSeq(records, LAMBDA r : r.released))
      withTimes == SelectSeq(records,
                     LAMBDA r : r.released /\ "releasedAt" \in DOMAIN r)
      quarantineTimes == [i \in 1..Len(withTimes) |-> QuarantineTime(withTimes[i])]
      avgTime == IF Len(quarantineTimes) > 0
                   THEN [sum |-> SumSeq(quarantineTimes), count |-> Len(quarantineTimes)]
                   ELSE [sum |-> 0, count |-> 1]
  IN [totalQuarantined |-> Len(records),
      currentlyQuarantined |-> currentlyQuarantined,
      released |-> released,
      averageQuarantineTime |-> avgTime]

getStats == getStatsOf(quarantinedSessions)

(* ------------------------------ quarantine ----------------------------- *)
\* variant: stamps the highest level instead of the configured threshold
NewRecord_TopLevel(sessionId, reason) ==
  [sessionId |-> sessionId,
   timestamp |-> toISOString(now),
   reason |-> reason,
   released |-> FALSE,
   threatLevel |-> 4]

\* the record literal built by quarantine
NewRecord(sessionId, reason) ==
  [sessionId |-> sessionId,
   timestamp |-> toISOString(now),
   reason |-> reason,
   released |-> FALSE,
   threatLevel |-> config.autoContainThreshold]

\* variant: rejects every session that has a stored record, released or not
quarantine_RejectsKnown(sessionId, reason) ==
  /\ IF MapHas(quarantinedSessions, sessionId)
       THEN /\ quarantinedSessions' = quarantinedSessions
            /\ last' = [op |-> "quarantine", sessionId |-> sessionId,
                        reason |-> reason, found |-> Found(sessionId),
                        result |-> FALSE]
            /\ unreleased' = unreleased
       ELSE /\ quarantinedSessions' =
                 MapSet(quarantinedSessions, sessionId, NewRecord(sessionId, reason))
            /\ last' = [op |-> "quarantine", sessionId |-> sessionId,
                        reason |-> reason, found |-> Found(sessionId),
                        result |-> TRUE]
            /\ unreleased' = unreleased \cup {sessionId}
  /\ UNCHANGED <<config, now>>

\* variant: a released record is reopened in place instead of replaced
quarantine_Reopen(sessionId, reason) ==
  /\ IF isQuarantined(sessionId)
       THEN /\ quarantinedSessions' = quarantinedSessions
            /\ last' = [op |-> "quarantine", sessionId |-> sessionId,
                        reason |-> reason, found |-> Found(sessionId),
                        result |-> FALSE]
            /\ unreleased' = unreleased
       ELSE /\ quarantinedSessions' =
                 MapSet(quarantinedSessions, sessionId,
                        IF MapHas(quarantinedSessions, sessionId)
                          THEN [MapGet(quarantinedSessions, sessionId)
                                  EXCEPT !.released = FALSE,
                                         !.timestamp = toISOString(now),
                                         !.reason = reason]
                          ELSE NewRecord(sessionId, reason))
            /\ last' = [op |-> "quarantine", sessionId |-> sessionId,
                        reason |-> reason, found |-> Found(sessionId),
                        result |-> TRUE]
            /\ unreleased' = unreleased \cup {sessionId}
  /\ UNCHANGED <<config, now>>

\* variant: no isQuarantined guard, the record is always overwritten
quarantine_NoGuard(sessionId, reason) ==
  /\ quarantinedSessions' =
       MapSet(quarantinedSessions, sessionId, NewRecord(sessionId, reason))
  /\ last' = [op |-> "quarantine", sessionId |-> sessionId,
              reason |-> reason, found |-> Found(sessionId),
              result |-> ~isQuarantined(sessionId)]
  /\ unreleased' = IF isQuarantined(sessionId)
                     THEN unreleased ELSE unreleased \cup {sessionId}
  /\ UNCHANGED <<config, now>>

quarantine(sessionId, reason) ==
  /\ IF isQuarantined(sessionId)
       THEN /\ quarantinedSessions' = quarantinedSessions
            /\ last' = [op |-> "quarantine", sessionId |-> sessionId,
                        reason |-> reason, found |-> Found(sessionId),
                        result |-> FALSE]
            /\ unreleased' = unreleased
       ELSE /\ quarantinedSessions' =
                 MapSet(quarantinedSessions, sessionId, NewRecord(sessionId, reason))
            /\ last' = [op |-> "quarantine", sessionId |-> sessionId,
                        reason |-> reason, found |-> Found(sessionId),
                        result |-> TRUE]
            /\ unreleased' = unreleased \cup {sessionId}
  /\ UNCHANGED <<config, now>>

(* ------------------------------- release ------------------------------- *)
\* variant: toggles the flag instead of setting it
ReleasedRecord_Toggle(record) ==
  [f \in DOMAIN record \cup {"releasedAt"} |->
     IF f = "released" THEN ~record.released
     ELSE IF f = "releasedAt" THEN toISOString(now)
     ELSE record[f]]

\* variant: stamps releasedAt only the first time
ReleasedRecord_KeepFirst(record) ==
  [f \in DOMAIN record \cup {"releasedAt"} |->
     IF f = "released" THEN TRUE
     ELSE IF f = "releasedAt"
       THEN (IF "releasedAt" \in DOMAIN record
               THEN record.releasedAt ELSE toISOString(now))
     ELSE record[f]]

\* variant: sets the flag but never stamps releasedAt
ReleasedRecord_NoStamp(record) == [record EXCEPT !.released = TRUE]

\* record.released = true; record.releasedAt = new Date().toISOString()
ReleasedRecord(record) ==
  [f \in DOMAIN record \cup {"releasedAt"} |->
     IF f = "released" THEN TRUE
     ELSE IF f = "releasedAt" THEN toISOString(now)
     ELSE record[f]]

\* variant: an unknown session is created as an already released record
release_Upsert(sessionId) ==
  /\ IF ~MapHas(quarantinedSessions, sessionId)
       THEN /\ quarantinedSessions' =
                 MapSet(quarantinedSessions, sessionId,
                        ReleasedRecord(NewRecord(sessionId, 1)))
            /\ last' = [op |-> "release", sessionId |-> sessionId,
                        found |-> Found(sessionId), result |-> FALSE]
            /\ unreleased' = unreleased
       ELSE /\ quarantinedSessions' =
                 MapSet(quarantinedSessions, sessionId,
                        ReleasedRecord(MapGet(quarantinedSessions, sessionId)))
            /\ last' = [op |-> "release", sessionId |-> sessionId,
                        found |-> Found(sessionId), result |-> TRUE]
            /\ unreleased' = unreleased \ {sessionId}
  /\ UNCHANGED <<config, now>>

\* variant: releases every stored record, not only the session's
release_All(sessionId) ==
  /\ IF ~MapHas(quarantinedSessions, sessionId)
       THEN /\ quarantinedSessions' = quarantinedSessions
            /\ last' = [op |-> "release", sessionId |-> sessionId,
                        found |-> Found(sessionId), result |-> FALSE]
            /\ unreleased' = unreleased
       ELSE /\ quarantinedSessions' =
                 [i \in 1..Len(quarantinedSessions) |->
                    [key |-> quarantinedSessions[i].key,
                     value |-> ReleasedRecord(quarantinedSessions[i].value)]]
            /\ last' = [op |-> "release", sessionId |-> sessionId,
                        found |-> Found(sessionId), result |-> TRUE]
            /\ unreleased' = unreleased \ {sessionId}
  /\ UNCHANGED <<config, now>>

release(sessionId) ==
  /\ IF ~MapHas(quarantinedSessions, sessionId)
       THEN /\ quarantinedSessions' = quarantinedSessions
            /\ last' = [op |-> "release", sessionId |-> sessionId,
                        found |-> Found(sessionId), result |-> FALSE]
            /\ unreleased' = unreleased
       ELSE /\ quarantinedSessions' =
                 MapSet(quarantinedSessions, sessionId,
                        ReleasedRecord(MapGet(quarantinedSessions, sessionId)))
            /\ last' = [op |-> "release", sessionId |-> sessionId,
                        found |-> Found(sessionId), result |-> TRUE]
            /\ unreleased' = unreleased \ {sessionId}
  /\ UNCHANGED <<config, now>>

(* --------------------------- clearOldRecords --------------------------- *)
\* variant: expires by age of the quarantine, released or not
ShouldClear_ByAge(record, cutoff) == getTime(record.timestamp) < cutoff

\* variant: the cutoff itself is included
ShouldClear_Inclusive(record, cutoff) ==
  /\ record.released
  /\ LET releasedAt == IF "releasedAt" \in DOMAIN record
                         THEN getTime(record.releasedAt)
                         ELSE 0
     IN releasedAt > 0 /\ releasedAt <= cutoff

\* the condition under which the loop deletes a record
ShouldClear(record, cutoff) ==
  /\ record.released
  /\ LET releasedAt == IF "releasedAt" \in DOMAIN record
                         THEN getTime(record.releasedAt)
                         ELSE 0
     IN releasedAt > 0 /\ releasedAt < cutoff

\* the for...of loop over the Map, deleting while iterating
RECURSIVE ClearLoop(_, _, _)
ClearLoop(m, i, cutoff) ==
  IF i > Len(m) THEN m
  ELSE IF ShouldClear(m[i].value, cutoff)
    THEN ClearLoop(MapDelete(m, m[i].key), i, cutoff)
    ELSE ClearLoop(m, i + 1, cutoff)

clearOldRecords(olderThanMs) ==
  /\ LET cutoff == now - olderThanMs
     IN quarantinedSessions' = ClearLoop(quarantinedSessions, 1, cutoff)
  /\ last' = [op |-> "clearOldRecords", olderThanMs |-> olderThanMs,
              removed |-> Len(quarantinedSessions)
                            - Len(ClearLoop(quarantinedSessions, 1, now - olderThanMs))]
  /\ UNCHANGED <<config, now, unreleased>>

(* ---------------------------- query calls ------------------------------ *)
\* a call of a query method: it returns its value and assigns nothing
Query(call) ==
  /\ last' = call
  /\ UNCHANGED <<config, quarantinedSessions, now, unreleased>>

\* variant: a released record is dropped from the registry when it is seen
Call_isQuarantined_Prune(sessionId) ==
  /\ last' = [op |-> "isQuarantined", sessionId |-> sessionId,
              result |-> isQuarantined(sessionId)]
  /\ quarantinedSessions' =
       IF MapHas(quarantinedSessions, sessionId)
            /\ MapGet(quarantinedSessions, sessionId).released
         THEN MapDelete(quarantinedSessions, sessionId)
         ELSE quarantinedSessions
  /\ UNCHANGED <<config, now, unreleased>>

Call_isQuarantined(sessionId) ==
  Query([op |-> "isQuarantined", sessionId |-> sessionId,
         result |-> isQuarantined(sessionId)])

Call_getRecord(sessionId) ==
  Query([op |-> "getRecord", sessionId |-> sessionId,
         result |-> getRecord(sessionId)])

Call_getQuarantinedSessions ==
  Query([op |-> "getQuarantinedSessions", result |-> getQuarantinedSessions])

Call_getHistory ==
  Query([op |-> "getHistory", result |-> getHistory])

Call_shouldAutoContain(threatLevel) ==
  Query([op |-> "shouldAutoContain", threatLevel |-> threatLevel,
         result |-> shouldAutoContain(threatLevel)])

Call_getStats ==
  Query([op |-> "getStats", result |-> getStats])

(* ------------------------------ the clock ------------------------------ *)
\* time passes between calls; the clock does not go backwards
Tick ==
  /\ now < StartTime + MaxTicks
  /\ now' = now + 1
  /\ last' = [op |-> "tick"]
  /\ UNCHANGED <<config, quarantinedSessions, unreleased>>

(* --------------------------- specification ----------------------------- *)
\* constructor(config)
Init ==
  /\ config \in ContainmentConfig
  /\ quarantinedSessions = << >>
  /\ now = StartTime
  /\ last = [op |-> "constructor"]
  /\ unreleased = {}

Next ==
  \/ \E sessionId \in Sessions, reason \in Reasons : quarantine(sessionId, reason)
  \/ \E sessionId \in Sessions : release(sessionId)
  \/ \E olderThanMs \in OlderThanArgs : clearOldRecords(olderThanMs)
  \/ Tick

Spec == Init /\ [][Next]_vars

\* the same registry with its callers also issuing the query methods
NextQueries ==
  \/ Next
  \/ \E sessionId \in Sessions : Call_isQuarantined(sessionId)
  \/ \E sessionId \in Sessions : Call_getRecord(sessionId)
  \/ Call_getQuarantinedSessions
  \/ Call_getHistory
  \/ \E threatLevel \in ThreatLevel : Call_shouldAutoContain(threatLevel)
  \/ Call_getStats

\* constructor(config) with the advisory maxQuarantineDuration, which no
\* method reads, left unset
InitQueries ==
  /\ Init
  /\ "maxQuarantineDuration" \notin DOMAIN config

SpecQueries == InitQueries /\ [][NextQueries]_vars

(* ======================================================================= *)
(*                              Properties                                 *)
(* ======================================================================= *)
\* observations of a registry, stated directly on its entries
Stored(m, s) == \E i \in 1..Len(m) : m[i].key = s

RecordOf(m, s) == m[CHOOSE i \in 1..Len(m) : m[i].key = s].value

Active(m, s) == Stored(m, s) /\ ~RecordOf(m, s).released

Released(m, s) == Stored(m, s) /\ RecordOf(m, s).released

HasReleasedAt(r) == "releasedAt" \in DOMAIN r

\* the step is a call of op on session s
Called(op, s) == last'.op = op /\ last'.sessionId = s

\* C1: quarantine(s, r) on a session with no active record (none stored, or
\* the stored one released) returns true, and right after it isQuarantined(s)
\* is true and the stored record is unreleased, has no releasedAt, carries
\* reason r and the time of the call as its timestamp.
C1_QuarantineInactive ==
  [][\A s \in Sessions :
       (Called("quarantine", s) /\ ~Active(quarantinedSessions, s))
         => /\ last'.result = TRUE
            /\ isQuarantined(s)'
            /\ Stored(quarantinedSessions', s)
            /\ LET r == RecordOf(quarantinedSessions', s)
               IN /\ r.released = FALSE
                  /\ ~HasReleasedAt(r)
                  /\ r.reason = last'.reason
                  /\ getTime(r.timestamp) = now]_vars

C1_Witness ==
  /\ last.op = "quarantine"
  /\ last.result = TRUE
  /\ last.found = "absent"
  /\ isQuarantined(last.sessionId)
  /\ now > StartTime

\* C2: quarantine(s, r) on a session with an active record returns false and
\* leaves the whole registry, that record included, exactly as it was.
C2_QuarantineActiveRejected ==
  [][\A s \in Sessions :
       (Called("quarantine", s) /\ Active(quarantinedSessions, s))
         => /\ last'.result = FALSE
            /\ quarantinedSessions' = quarantinedSessions]_vars

C2_Witness ==
  /\ last.op = "quarantine"
  /\ last.result = FALSE
  /\ Active(quarantinedSessions, last.sessionId)
  /\ LET r == RecordOf(quarantinedSessions, last.sessionId)
     IN r.reason # last.reason /\ getTime(r.timestamp) < now
  /\ Len(quarantinedSessions) = 2

\* C3: release(s) on a session with no stored record returns false, leaves
\* the registry unchanged, and isQuarantined(s) is false afterwards.
C3_ReleaseUnknown ==
  [][\A s \in Sessions :
       (Called("release", s) /\ ~Stored(quarantinedSessions, s))
         => /\ last'.result = FALSE
            /\ quarantinedSessions' = quarantinedSessions
            /\ ~isQuarantined(s)']_vars

C3_Witness ==
  /\ last.op = "release"
  /\ last.result = FALSE
  /\ ~Stored(quarantinedSessions, last.sessionId)
  /\ ~isQuarantined(last.sessionId)
  /\ Len(quarantinedSessions) = 1

\* C4: release(s) on a session with a stored record returns true, after
\* which isQuarantined(s) is false, released is true and releasedAt is the
\* time of the call; and, the clock never going backwards, every released
\* record in every reachable state has releasedAt >= its creation timestamp.
C4_ReleaseStored ==
  /\ [][\A s \in Sessions :
          (Called("release", s) /\ Stored(quarantinedSessions, s))
            => /\ last'.result = TRUE
               /\ ~isQuarantined(s)'
               /\ Stored(quarantinedSessions', s)
               /\ LET r == RecordOf(quarantinedSessions', s)
                  IN /\ r.released = TRUE
                     /\ HasReleasedAt(r)
                     /\ getTime(r.releasedAt) = now]_vars
  /\ [](\A s \in Sessions :
          Released(quarantinedSessions, s)
            => LET r == RecordOf(quarantinedSessions, s)
               IN HasReleasedAt(r) /\ getTime(r.releasedAt) >= getTime(r.timestamp))

C4_Witness ==
  /\ last.op = "release"
  /\ last.result = TRUE
  /\ last.found = "active"
  /\ LET r == RecordOf(quarantinedSessions, last.sessionId)
     IN r.released /\ getTime(r.releasedAt) > getTime(r.timestamp)

\* the step replaces the record of s by a fresh one (a successful quarantine)
Requarantined(s) == Called("quarantine", s) /\ last'.result = TRUE

\* C5 as stated: a stored record is mutated in place exactly once, so once it
\* is released no later operation changes its released flag or its releasedAt.
C5_ReleasedNeverChanges ==
  [][\A s \in Sessions :
       (/\ Released(quarantinedSessions, s)
        /\ Stored(quarantinedSessions', s)
        /\ ~Requarantined(s))
         => RecordOf(quarantinedSessions', s) = RecordOf(quarantinedSessions, s)]_vars

\* C5 as amended: a stored record is mutated in place only by release; its
\* released flag goes from false to true at the first release and never back,
\* and releasedAt, set at that transition, changes afterwards only when a
\* further release of the same session overwrites it with the time of that call.
C5_OnlyReleaseMutates ==
  [][\A s \in Sessions :
       (/\ Stored(quarantinedSessions, s)
        /\ Stored(quarantinedSessions', s)
        /\ ~Requarantined(s))
         => LET old == RecordOf(quarantinedSessions, s)
                new == RecordOf(quarantinedSessions', s)
            IN /\ ~Called("release", s) => new = old
               /\ old.released => new.released
               /\ (~old.released /\ new.released)
                    => HasReleasedAt(new) /\ ~HasReleasedAt(old)
               /\ (old.released /\ HasReleasedAt(old))
                    => /\ HasReleasedAt(new)
                       /\ \/ new.releasedAt = old.releasedAt
                          \/ Called("release", s) /\ getTime(new.releasedAt) = now
               /\ new.sessionId = old.sessionId
               /\ new.timestamp = old.timestamp
               /\ new.reason = old.reason
               /\ new.threatLevel = old.threatLevel]_vars

C5_Witness ==
  /\ last.op = "release"
  /\ last.result = TRUE
  /\ last.found = "released"
  /\ LET r == RecordOf(quarantinedSessions, last.sessionId)
     IN r.released /\ getTime(r.releasedAt) = now /\ now > getTime(r.timestamp)

\* C6: release(s) on an already released record returns true again and
\* overwrites releasedAt with the time of the call, never earlier than the
\* previous releasedAt, so the duration getStats counts for the record does
\* not decrease, and grows when the clock has advanced since the last release.
C6_ReleaseAgainRestamps ==
  [][\A s \in Sessions :
       (Called("release", s) /\ Released(quarantinedSessions, s))
         => LET old == RecordOf(quarantinedSessions, s)
                new == RecordOf(quarantinedSessions', s)
            IN /\ last'.result = TRUE
               /\ new.released
               /\ getTime(new.releasedAt) = now
               /\ getTime(new.releasedAt) >= getTime(old.releasedAt)
               /\ QuarantineTime(new) >= QuarantineTime(old)
               /\ now > getTime(old.releasedAt)
                    => QuarantineTime(new) > QuarantineTime(old)
               /\ getStatsOf(quarantinedSessions').averageQuarantineTime.sum
                    = getStatsOf(quarantinedSessions).averageQuarantineTime.sum
                        + (now - getTime(old.releasedAt))]_vars

C6_Witness ==
  /\ last.op = "release"
  /\ last.result = TRUE
  /\ last.found = "released"
  /\ getStats.released = 2
  /\ LET r == RecordOf(quarantinedSessions, last.sessionId)
     IN QuarantineTime(r) = MaxTicks

\* C7: once isQuarantined(s) is true it stays true, with the same record,
\* through every step that is not a release(s): the passage of time (also
\* beyond maxQuarantineDuration), clearOldRecords with any olderThanMs,
\* quarantine calls, and operations on other sessions.
C7_QuarantinedUntilRelease ==
  [][\A s \in Sessions :
       (isQuarantined(s) /\ ~Called("release", s))
         => /\ isQuarantined(s)'
            /\ RecordOf(quarantinedSessions', s) = RecordOf(quarantinedSessions, s)]_vars

C7_Witness ==
  \E s \in Sessions :
    /\ isQuarantined(s)
    /\ "maxQuarantineDuration" \in DOMAIN config
    /\ now - getTime(RecordOf(quarantinedSessions, s).timestamp)
         > config.maxQuarantineDuration
    /\ last.op = "clearOldRecords"
    /\ last.olderThanMs = -1
    /\ last.removed = 1

\* C8: clearOldRecords(olderThanMs), with cutoff = now - olderThanMs, removes
\* exactly the stored records that are released with releasedAt < cutoff and
\* leaves every other record stored and unchanged; with olderThanMs = 0 a
\* record released at exactly now, and every unreleased record, is kept.
C8_ClearRemovesExactlyOld ==
  [][last'.op = "clearOldRecords"
       => LET cutoff == now - last'.olderThanMs
              Old(s) == /\ Released(quarantinedSessions, s)
                        /\ HasReleasedAt(RecordOf(quarantinedSessions, s))
                        /\ getTime(RecordOf(quarantinedSessions, s).releasedAt) < cutoff
          IN /\ \A s \in Sessions :
                  /\ Stored(quarantinedSessions', s)
                       <=> (Stored(quarantinedSessions, s) /\ ~Old(s))
                  /\ Stored(quarantinedSessions', s)
                       => RecordOf(quarantinedSessions', s)
                            = RecordOf(quarantinedSessions, s)
             /\ Len(quarantinedSessions')
                  = Cardinality({s \in Sessions : Stored(quarantinedSessions', s)})
             /\ last'.olderThanMs = 0
                  => \A s \in Sessions :
                       (\/ Active(quarantinedSessions, s)
                        \/ /\ Released(quarantinedSessions, s)
                           /\ getTime(RecordOf(quarantinedSessions, s).releasedAt) = now)
                         => Stored(quarantinedSessions', s)]_vars

C8_Witness ==
  /\ last.op = "clearOldRecords"
  /\ last.olderThanMs = 0
  /\ last.removed = 1
  /\ Len(quarantinedSessions) = 1
  /\ LET r == quarantinedSessions[1].value
     IN r.released /\ getTime(r.releasedAt) = now /\ getTime(r.timestamp) < now

\* the records getHistory returns for session s
HistoryOf(m, s) == SelectSeq(getHistoryOf(m), LAMBDA r : r.sessionId = s)

\* C9: quarantining a session whose stored record is released returns true
\* and replaces that record by a fresh one; afterwards getHistory holds exactly
\* one record for the session, the fresh one, so the earlier releasedAt is
\* gone, getStats().released is one less and totalQuarantined is unchanged.
C9_RequarantineReplaces ==
  [][\A s \in Sessions :
       (Called("quarantine", s) /\ Released(quarantinedSessions, s))
         => /\ last'.result = TRUE
            /\ HistoryOf(quarantinedSessions', s)
                 = << [sessionId |-> s,
                       timestamp |-> toISOString(now),
                       reason |-> last'.reason,
                       released |-> FALSE,
                       threatLevel |-> config.autoContainThreshold] >>
            /\ getStatsOf(quarantinedSessions').released
                 = getStatsOf(quarantinedSessions).released - 1
            /\ getStatsOf(quarantinedSessions').totalQuarantined
                 = getStatsOf(quarantinedSessions).totalQuarantined]_vars

C9_Witness ==
  /\ last.op = "quarantine"
  /\ last.result = TRUE
  /\ last.found = "released"
  /\ Len(HistoryOf(quarantinedSessions, last.sessionId)) = 1
  /\ getStats.totalQuarantined = 2
  /\ getStats.released = 1

\* C10: every stored record's threatLevel equals config.autoContainThreshold.
C10_ThreatLevelIsThreshold ==
  \A i \in 1..Len(quarantinedSessions) :
    quarantinedSessions[i].value.threatLevel = config.autoContainThreshold

C10_Witness ==
  /\ config.autoContainThreshold = 2
  /\ Len(quarantinedSessions) = 2
  /\ quarantinedSessions[1].value.released
  /\ ~quarantinedSessions[2].value.released
  /\ last.op = "quarantine"
  /\ last.result = FALSE

\* C11: for every stored record, releasedAt is present if and only if
\* released is true.
C11_ReleasedAtIffReleased ==
  \A i \in 1..Len(quarantinedSessions) :
    HasReleasedAt(quarantinedSessions[i].value)
      <=> quarantinedSessions[i].value.released

C11_Witness ==
  /\ Len(quarantinedSessions) = 2
  /\ quarantinedSessions[1].value.released
  /\ HasReleasedAt(quarantinedSessions[1].value)
  /\ ~quarantinedSessions[2].value.released
  /\ ~HasReleasedAt(quarantinedSessions[2].value)
  /\ last.op = "quarantine"
  /\ last.found = "released"

\* C18: at most one record is stored per session identifier, the record
\* stored under key s has sessionId = s, and getHistory never holds two
\* records with the same sessionId.
C18_OneRecordPerSession ==
  /\ \A i, j \in 1..Len(quarantinedSessions) :
       quarantinedSessions[i].key = quarantinedSessions[j].key => i = j
  /\ \A i \in 1..Len(quarantinedSessions) :
       quarantinedSessions[i].value.sessionId = quarantinedSessions[i].key
  /\ \A i, j \in 1..Len(getHistory) :
       getHistory[i].sessionId = getHistory[j].sessionId => i = j

\* a session replaced in place after release keeps its position in the registry
C18_Witness ==
  /\ Len(quarantinedSessions) = 2
  /\ last.op = "quarantine"
  /\ last.result = TRUE
  /\ last.found = "released"
  /\ quarantinedSessions[1].key = last.sessionId
  /\ getTime(quarantinedSessions[1].value.timestamp)
       > getTime(quarantinedSessions[2].value.timestamp)

\* C19: quarantine(s, r) and release(s), accepted or rejected, leave every
\* other session t as it was: whether a record is stored, every field of the
\* record, and the result of isQuarantined(t).
C19_OtherSessionsUntouched ==
  [][\A s \in Sessions :
       (Called("quarantine", s) \/ Called("release", s))
         => \A t \in Sessions \ {s} :
              /\ Stored(quarantinedSessions', t) <=> Stored(quarantinedSessions, t)
              /\ Stored(quarantinedSessions, t)
                   => RecordOf(quarantinedSessions', t) = RecordOf(quarantinedSessions, t)
              /\ isQuarantined(t)' <=> isQuarantined(t)]_vars

C19_Witness ==
  /\ last.op = "release"
  /\ last.result = TRUE
  /\ \E t \in Sessions \ {last.sessionId} :
       /\ isQuarantined(t)
       /\ getTime(RecordOf(quarantinedSessions, t).timestamp) < now
  /\ getTime(RecordOf(quarantinedSessions, last.sessionId).releasedAt) = now

\* C20: two quarantine(s, _) calls that both return true are separated by a
\* release(s) call that returned true: a quarantine of s never succeeds while
\* the latest successful quarantine of s is not yet followed by such a release.
C20_NoSecondQuarantineWithoutRelease ==
  [][\A s \in Sessions : Requarantined(s) => s \notin unreleased]_vars

C20_Witness ==
  /\ last.op = "quarantine"
  /\ last.result = TRUE
  /\ last.found = "released"
  /\ unreleased = Sessions
  /\ now = StartTime

(* ----------------- properties of the query methods --------------------- *)
StoredSessions == {s \in Sessions : Stored(quarantinedSessions, s)}

ActiveSessions == {s \in Sessions : Active(quarantinedSessions, s)}

ReleasedSessions == {s \in Sessions : Released(quarantinedSessions, s)}

\* the records of a list, as a set
Records(q) == {q[i] : i \in 1..Len(q)}

\* C12: isQuarantined(s) is true if and only if a record is stored for s and
\* that record's released is false; it is false for a session with no record
\* and for a released session.
C12_IsQuarantinedIffActive ==
  /\ \A s \in Sessions : isQuarantined(s) <=> Active(quarantinedSessions, s)
  /\ last.op = "isQuarantined"
       => /\ last.result <=> Active(quarantinedSessions, last.sessionId)
          /\ ~Stored(quarantinedSessions, last.sessionId) => last.result = FALSE
          /\ Released(quarantinedSessions, last.sessionId) => last.result = FALSE

C12_Witness ==
  /\ last.op = "isQuarantined"
  /\ last.result = FALSE
  /\ Released(quarantinedSessions, last.sessionId)
  /\ \E t \in Sessions : isQuarantined(t)

\* C13: getHistory() returns exactly the stored records, and
\* getQuarantinedSessions() exactly those with released = false, which are
\* the records of the sessions s for which isQuarantined(s) is true.
C13_HistoryAndQuarantinedLists ==
  /\ last.op = "getHistory"
       => /\ Records(last.result)
               = {RecordOf(quarantinedSessions, s) : s \in StoredSessions}
          /\ Len(last.result) = Cardinality(StoredSessions)
  /\ last.op = "getQuarantinedSessions"
       => /\ Records(last.result)
               = {RecordOf(quarantinedSessions, s) : s \in ActiveSessions}
          /\ Len(last.result) = Cardinality(ActiveSessions)
          /\ Records(last.result)
               = {RecordOf(quarantinedSessions, s) :
                    s \in {t \in Sessions : isQuarantined(t)}}
          /\ \A r \in Records(last.result) : r.released = FALSE

C13_Witness ==
  /\ last.op = "getQuarantinedSessions"
  /\ Len(last.result) = 1
  /\ Len(quarantinedSessions) = 2
  /\ Len(getHistory) = 2
  /\ quarantinedSessions[1].value.released

\* C14: getStats() reports totalQuarantined = number of stored records,
\* currentlyQuarantined = number with released false, released = number with
\* released true, hence total = current + released; on an empty registry all
\* four fields are 0; with A released and B still quarantined they are 2, 1, 1.
C14_StatsCounts ==
  last.op = "getStats"
    => /\ last.result.totalQuarantined = Cardinality(StoredSessions)
       /\ last.result.currentlyQuarantined = Cardinality(ActiveSessions)
       /\ last.result.released = Cardinality(ReleasedSessions)
       /\ last.result.totalQuarantined
            = last.result.currentlyQuarantined + last.result.released
       /\ quarantinedSessions = << >>
            => /\ last.result.totalQuarantined = 0
               /\ last.result.currentlyQuarantined = 0
               /\ last.result.released = 0
               /\ last.result.averageQuarantineTime.sum = 0
       /\ (Released(quarantinedSessions, "A") /\ Active(quarantinedSessions, "B"))
            => /\ last.result.totalQuarantined = 2
               /\ last.result.currentlyQuarantined = 1
               /\ last.result.released = 1

C14_Witness ==
  /\ last.op = "getStats"
  /\ Released(quarantinedSessions, "A")
  /\ Active(quarantinedSessions, "B")
  /\ last.result.totalQuarantined = 2
  /\ last.result.currentlyQuarantined = 1
  /\ last.result.released = 1

\* the sum of releasedAt - createdAt over the released records of a set of sessions
RECURSIVE DurationSum(_)
DurationSum(S) ==
  IF S = {} THEN 0
  ELSE LET s == CHOOSE x \in S : TRUE
           r == RecordOf(quarantinedSessions, s)
       IN (getTime(r.releasedAt) - getTime(r.timestamp)) + DurationSum(S \ {s})

\* C15: averageQuarantineTime is the arithmetic mean of releasedAt - createdAt
\* over exactly the released records (as the exact quotient sum / count: its
\* sum is the sum of their durations and its count their number), it is 0
\* when no record is released, and it is never negative.
C15_AverageIsMeanOfReleased ==
  last.op = "getStats"
    => LET avg == last.result.averageQuarantineTime
       IN /\ ReleasedSessions # {}
               => /\ avg.sum = DurationSum(ReleasedSessions)
                  /\ avg.count = Cardinality(ReleasedSessions)
          /\ ReleasedSessions = {} => avg.sum = 0
          /\ avg.count > 0
          /\ avg.sum >= 0

\* one record released at once and one after a millisecond: the mean is 1/2
C15_Witness ==
  /\ last.op = "getStats"
  /\ Cardinality(ActiveSessions) = 0
  /\ last.result.averageQuarantineTime.count = 2
  /\ last.result.averageQuarantineTime.sum = 1

\* C16: for every level 1..4 and every threshold 1..4, in every reachable
\* state, shouldAutoContain(level) is true exactly when the level is one of
\* threshold..4, whatever the registry holds.
C16_ShouldAutoContain ==
  /\ \A level \in 1..4 :
       shouldAutoContain(level) <=> level \in config.autoContainThreshold..4
  /\ last.op = "shouldAutoContain"
       => (last.result <=> ~(last.threatLevel < config.autoContainThreshold))

C16_Witness ==
  /\ last.op = "shouldAutoContain"
  /\ last.threatLevel = config.autoContainThreshold
  /\ last.threatLevel = 3
  /\ last.result = TRUE
  /\ Len(quarantinedSessions) = 2

QueryOps ==
  {"isQuarantined", "getRecord", "getQuarantinedSessions", "getHistory",
   "getStats", "shouldAutoContain"}

\* C17: a call of isQuarantined, getRecord, getQuarantinedSessions,
\* getHistory, getStats or shouldAutoContain leaves the stored records and the
\* configuration unchanged, and getHistory returns the records stored when it
\* is called, so two getHistory calls with only queries in between return
\* equal record sets.
C17_QueriesChangeNothing ==
  [][last'.op \in QueryOps
       => /\ quarantinedSessions' = quarantinedSessions
          /\ config' = config
          /\ last'.op = "getHistory"
               => Records(last'.result)
                    = {RecordOf(quarantinedSessions, s) : s \in StoredSessions}]_vars

C17_Witness ==
  /\ last.op = "getHistory"
  /\ Len(last.result) = 2
  /\ last.result[1].released
  /\ last.result[2].released
  /\ now = StartTime + 1

====
